---- MODULE Spec2Model ----
(***************************************************************************)
(* Model of the sekoia-event-exporter command line client                  *)
(* (src/src/sekoia_event_exporter/cli.py): the SSE-C configuration builder *)
(* build_s3_config, the export command cmd_export and the status poller    *)
(* poll_status.                                                            *)
(*                                                                         *)
(* Python values are encoded as follows.                                   *)
(*   - Optional values: None is the empty tuple <<>>, a present value v is *)
(*     the 1-tuple <<v>>.                                                  *)
(*   - Strings handled by the builder (keys, digests, settings) are tuples *)
(*     of ASCII codes, so that base64 can be computed on them; strings of  *)
(*     the task API (status, URL, message) are TLA+ strings.               *)
(*   - A dict is a function whose DOMAIN is the set of keys present.       *)
(***************************************************************************)
EXTENDS Integers, Sequences, FiniteSets, TLC

None == <<>>
Some(v) == <<v>>

\* Python truthiness.
TruthyStr(x) == x # None /\ Len(x[1]) > 0
TruthyText(x) == x # None /\ x[1] # ""
TruthyInt(x) == x # None /\ x[1] # 0

EmptyDict == [k \in {} |-> None]
DictPut(d, key, val) == [k \in DOMAIN d \cup {key} |-> IF k = key THEN val ELSE d[k]]
DictPop(d, key) == [k \in DOMAIN d \ {key} |-> d[k]]

(***************************************************************************)
(* base64 (the standard library's codec, as called by the builder)         *)
(***************************************************************************)
PAD == 61

\* table_a2b_base64: the 6-bit value of an ASCII code, 64 for a character
\* outside the alphabet.
B64Val(c) ==
    IF c >= 65 /\ c <= 90 THEN c - 65
    ELSE IF c >= 97 /\ c <= 122 THEN c - 71
    ELSE IF c >= 48 /\ c <= 57 THEN c + 4
    ELSE IF c = 43 THEN 62
    ELSE IF c = 47 THEN 63
    ELSE 64

B64Chr(v) ==
    IF v < 26 THEN v + 65
    ELSE IF v < 52 THEN v + 71
    ELSE IF v < 62 THEN v - 4
    ELSE IF v = 62 THEN 43
    ELSE 47

\* the four characters that encode the bytes of one group of up to three
b2a_group(g) ==
    IF Len(g) = 1 THEN
        << B64Chr(g[1] \div 4), B64Chr((g[1] % 4) * 16), PAD, PAD >>
    ELSE IF Len(g) = 2 THEN
        << B64Chr(g[1] \div 4),
           B64Chr((g[1] % 4) * 16 + g[2] \div 16),
           B64Chr((g[2] % 16) * 4), PAD >>
    ELSE
        << B64Chr(g[1] \div 4),
           B64Chr((g[1] % 4) * 16 + g[2] \div 16),
           B64Chr((g[2] % 16) * 4 + g[3] \div 64),
           B64Chr(g[3] % 64) >>

\* the encoding of the groups lo..hi of bytes, by halving (the order of the
\* groups is that of the loop of the codec)
RECURSIVE b2a_groups(_, _, _)
b2a_groups(bytes, lo, hi) ==
    IF lo > hi THEN <<>>
    ELSE IF lo = hi
    THEN b2a_group(SubSeq(bytes, 3 * lo - 2,
                          IF 3 * lo < Len(bytes) THEN 3 * lo ELSE Len(bytes)))
    ELSE LET mid == (lo + hi) \div 2 IN
         b2a_groups(bytes, lo, mid) \o b2a_groups(bytes, mid + 1, hi)

\* base64.b64encode(bytes)
b64encode(bytes) == b2a_groups(bytes, 1, (Len(bytes) + 2) \div 3)

\* one turn of the decoding loop of binascii.a2b_base64 (strict_mode off) on
\* the character c: a character outside the alphabet is discarded, a complete
\* pad sequence ends the decoding
a2b_step(st, c) ==
    IF st.done THEN st
    ELSE IF c = PAD THEN
        IF st.quad_pos >= 2 /\ st.quad_pos + st.pads + 1 >= 4
        THEN [st EXCEPT !.done = TRUE]
        ELSE [st EXCEPT !.pads = IF st.quad_pos >= 2 THEN @ + 1 ELSE @]
    ELSE IF B64Val(c) >= 64 THEN st
    ELSE LET v == B64Val(c) IN
        IF st.quad_pos = 0
        THEN [st EXCEPT !.quad_pos = 1, !.leftchar = v, !.pads = 0]
        ELSE IF st.quad_pos = 1
        THEN [st EXCEPT !.quad_pos = 2, !.leftchar = v % 16, !.pads = 0,
                        !.out = Append(@, st.leftchar * 4 + v \div 16)]
        ELSE IF st.quad_pos = 2
        THEN [st EXCEPT !.quad_pos = 3, !.leftchar = v % 4, !.pads = 0,
                        !.out = Append(@, st.leftchar * 16 + v \div 4)]
        ELSE [st EXCEPT !.quad_pos = 0, !.leftchar = 0, !.pads = 0,
                        !.out = Append(@, st.leftchar * 64 + v)]

\* the loop over the characters lo..hi of s, by halving
RECURSIVE a2b_loop(_, _, _, _)
a2b_loop(s, lo, hi, st) ==
    IF lo > hi THEN st
    ELSE IF lo = hi THEN a2b_step(st, s[lo])
    ELSE LET mid == (lo + hi) \div 2
             left == a2b_loop(s, lo, mid, st)
         IN IF left.done THEN left ELSE a2b_loop(s, mid + 1, hi, left)

\* base64.b64decode(s) with validate=False; a quad left incomplete at the end
\* of the input is an error (binascii.Error)
b64decode(s) ==
    LET st == a2b_loop(s, 1, Len(s),
                       [quad_pos |-> 0, leftchar |-> 0, pads |-> 0, out |-> <<>>,
                        done |-> FALSE])
    IN [ok |-> st.done \/ st.quad_pos = 0, bytes |-> st.out]

\* hashlib.md5(b).digest(), idealised as collision free: the digest is
\* represented by its tagged preimage.
md5_digest(bytes) == <<255>> \o bytes

(***************************************************************************)
(* Program constants                                                       *)
(***************************************************************************)
URANDOM_BYTES == 32
SSE_KEY_BYTES == 32
DEFAULT_INTERVAL_S == 2
AES256 == <<65, 69, 83, 50, 53, 54>>
DEFAULT_API_HOST == "api.sekoia.io"
DEFAULT_EXPORT_FIELDS == <<"message", "timestamp">>

(***************************************************************************)
(* Bounds of the model                                                     *)
(***************************************************************************)
\* os.urandom draws every byte from 0..MaxRandByte
MaxRandByte == 1
\* user-supplied keys encode SSE_KEY_BYTES - KeySlack .. SSE_KEY_BYTES + KeySlack bytes
KeySlack == 1
\* status fetches per poll
MaxFetches == 3
\* seconds a status fetch may take
MaxFetchDelay == 1
\* --interval ranges over 1..MaxInterval
MaxInterval == 1
\* --max-wait ranges over None and -1..MaxWait
MaxWait == 2
\* total and progress reported by the server range over 0..MaxTotal
MaxTotal == 2
\* status fetches of each of two polls run at once
MaxSamples == 2
\* last second of the clock of two polls run at once
MaxClock == 3
\* last second told apart by the clock of a poll followed without a limit of
\* fetches: it lies after every deadline
Horizon == MaxWait + 1

VARIABLES
    command,              \* sub-command of the invocation
    args,                 \* parsed command line (argparse Namespace)
    env,                  \* os.environ
    auto_generate_key,    \* argument of the last build_s3_config call
    pc,                   \* position of the running command
    now,                  \* wall clock, in seconds
    api_host, session,    \* locals of the command
    s3_config, generated_key, fields, task_uuid, download_url,
    posts,                \* JSON bodies POSTed to the export endpoint
    downloads,            \* GET requests sent to the download URL
    gets,                 \* GET requests sent to the task endpoint
    frames,               \* locals of the poll_status calls of a library caller
    fetches, sleeps,      \* status fetches and sleeps done by poll_status
    max_wait_s, interval_s, start_time, deadline,
    last_progress_count, last_poll_time, current_poll_time,
    data,                 \* last task status fetched
    progress, eta_str,    \* last progress line computed
    error,                \* exception that left the command, if any
    exit_code             \* process exit status, once exited

vars == << command, args, env, auto_generate_key, pc, now, api_host, session,
           s3_config, generated_key, fields, task_uuid, download_url, posts, gets,
           downloads, fetches, sleeps, max_wait_s, interval_s, start_time,
           deadline, last_progress_count, last_poll_time, current_poll_time,
           data, progress, eta_str, error, exit_code, frames >>

(***************************************************************************)
(* build_s3_config                                                         *)
(***************************************************************************)
getattr(a, name) == IF name \in DOMAIN a THEN a[name] ELSE None
getenv(e, name) == IF name \in DOMAIN e THEN Some(e[name]) ELSE None

\* os.urandom(n): n bytes, here all equal to b
urandom(n, b) == [i \in 1..n |-> b]

generate_random_b64_sse_key(b) == b64encode(urandom(URANDOM_BYTES, b))

get_value(a, e, arg_name, env_name) ==
    LET arg_value == getattr(a, arg_name) IN
    IF arg_value # None THEN arg_value ELSE getenv(e, env_name)

\* config key, CLI attribute and environment variable of the settings copied
\* verbatim into the configuration
S3_SETTINGS ==
    { <<"bucket_name", "s3_bucket", "S3_BUCKET">>,
      <<"prefix", "s3_prefix", "S3_PREFIX">>,
      <<"access_key_id", "s3_access_key", "S3_ACCESS_KEY_ID">>,
      <<"secret_access_key", "s3_secret_key", "S3_SECRET_ACCESS_KEY">>,
      <<"endpoint_url", "s3_endpoint", "S3_ENDPOINT_URL">>,
      <<"region_name", "s3_region", "S3_REGION_NAME">> }

s3_settings(a, e) ==
    LET present == { t \in S3_SETTINGS : TruthyStr(get_value(a, e, t[2], t[3])) } IN
    [k \in { t[1] : t \in present } |->
        LET t == CHOOSE u \in present : u[1] = k IN get_value(a, e, t[2], t[3])[1]]

ConfigError(reason, got) == [type |-> "ConfigError", reason |-> reason, got |-> got]
Return(v) == [raised |-> FALSE, value |-> v]
Raise(e) == [raised |-> TRUE, error |-> e]

\* variant: --no-sse-c only keeps a key from being generated
resolve_sse_key_no_generation(a, e, auto, rnd, cfg) ==
    LET no_sse_c == IF "no_sse_c" \in DOMAIN a THEN a["no_sse_c"] ELSE FALSE
        sse_key == get_value(a, e, "s3_sse_c_key", "S3_SSE_C_KEY")
    IN IF ~TruthyStr(sse_key) /\ auto /\ ~no_sse_c THEN
            LET k == generate_random_b64_sse_key(rnd) IN
            [sse_key |-> Some(k), cfg |-> DictPut(cfg, "_generated_key", k)]
       ELSE [sse_key |-> sse_key, cfg |-> cfg]

\* lines 293-304: the key and, when it was generated, the marker
resolve_sse_key(a, e, auto, rnd, cfg) ==
    LET no_sse_c == IF "no_sse_c" \in DOMAIN a THEN a["no_sse_c"] ELSE FALSE IN
    IF ~no_sse_c THEN
        LET sse_key == get_value(a, e, "s3_sse_c_key", "S3_SSE_C_KEY") IN
        IF ~TruthyStr(sse_key) /\ auto THEN
            LET k == generate_random_b64_sse_key(rnd) IN
            [sse_key |-> Some(k), cfg |-> DictPut(cfg, "_generated_key", k)]
        ELSE [sse_key |-> sse_key, cfg |-> cfg]
    ELSE [sse_key |-> None, cfg |-> cfg]

\* variant: the digest is taken of the base64 text of the key
resolve_sse_key_md5_of_text(a, e, key_bytes) ==
    LET sse_key_md5 == get_value(a, e, "s3_sse_c_key_md5", "S3_SSE_C_KEY_MD5") IN
    IF ~TruthyStr(sse_key_md5) THEN b64encode(md5_digest(b64encode(key_bytes)))
    ELSE sse_key_md5[1]

\* lines 325-330: the digest of the key
resolve_sse_key_md5(a, e, key_bytes) ==
    LET sse_key_md5 == get_value(a, e, "s3_sse_c_key_md5", "S3_SSE_C_KEY_MD5") IN
    IF ~TruthyStr(sse_key_md5) THEN b64encode(md5_digest(key_bytes)) ELSE sse_key_md5[1]

\* lines 306-319: the validation of the key
validate_sse_key(sse_key) ==
    LET dec == b64decode(sse_key) IN
    IF ~dec.ok THEN Raise(ConfigError("base64", 0))
    ELSE IF Len(dec.bytes) # SSE_KEY_BYTES THEN Raise(ConfigError("length", Len(dec.bytes)))
    ELSE Return(dec.bytes)

build_s3_config(a, e, auto, rnd) ==
    LET r == resolve_sse_key(a, e, auto, rnd, s3_settings(a, e)) IN
    IF TruthyStr(r.sse_key) THEN
        LET key == validate_sse_key(r.sse_key[1]) IN
        IF key.raised THEN key
        ELSE
            LET alg == get_value(a, e, "s3_sse_c_algorithm", "S3_SSE_C_ALGORITHM")
                c1 == DictPut(r.cfg, "sse_customer_key", r.sse_key[1])
                c2 == DictPut(c1, "sse_customer_algorithm",
                              IF TruthyStr(alg) THEN alg[1] ELSE AES256)
                c3 == DictPut(c2, "sse_customer_key_md5",
                              resolve_sse_key_md5(a, e, key.value))
            IN Return(Some(c3))
    ELSE Return(IF DOMAIN r.cfg # {} THEN Some(r.cfg) ELSE None)

(***************************************************************************)
(* Helpers of the commands                                                 *)
(***************************************************************************)
\* variant: the environment is looked up before the argument
get_api_host_env_first(host, e) ==
    IF "API_HOST" \in DOMAIN e THEN e["API_HOST"]
    ELSE IF TruthyText(host) THEN host[1] ELSE DEFAULT_API_HOST

get_api_host(host, e) ==
    IF TruthyText(host) THEN host[1]
    ELSE IF "API_HOST" \in DOMAIN e THEN e["API_HOST"] ELSE DEFAULT_API_HOST

\* variant: only an unset API_KEY is refused
create_http_session_unset_only(e) ==
    LET api_key == getenv(e, "API_KEY") IN
    IF api_key = None THEN Raise(ConfigError("API_KEY", 0))
    ELSE Return([Authorization |-> <<"Bearer", api_key[1]>>])

create_http_session(e) ==
    LET api_key == getenv(e, "API_KEY") IN
    IF ~TruthyText(api_key) THEN Raise(ConfigError("API_KEY", 0))
    ELSE Return([Authorization |-> <<"Bearer", api_key[1]>>])

\* s3_config is truthy: not None and not an empty dict
TruthyDict(c) == c # None /\ DOMAIN c[1] # {}

\* lines 364-372: the JSON body of the export request
export_body(cfg, flds) ==
    LET b1 == IF TruthyDict(cfg) THEN DictPut(EmptyDict, "s3", cfg[1]) ELSE EmptyDict
        b2 == IF Len(flds) > 0 THEN DictPut(b1, "fields", flds) ELSE b1
    IN IF DOMAIN b2 # {} THEN Some(b2) ELSE None

\* variant: the headers are sent for every configuration, whatever it holds
download_headers_of_any_config(cfg) ==
    IF TruthyDict(cfg) THEN
        [algorithm |-> IF "sse_customer_algorithm" \in DOMAIN cfg[1]
                       THEN cfg[1]["sse_customer_algorithm"] ELSE AES256,
         key |-> IF "sse_customer_key" \in DOMAIN cfg[1]
                 THEN cfg[1]["sse_customer_key"] ELSE <<>>,
         key_md5 |-> IF "sse_customer_key_md5" \in DOMAIN cfg[1]
                     THEN cfg[1]["sse_customer_key_md5"] ELSE <<>>]
    ELSE EmptyDict

\* lines 407-412: the SSE-C headers of the download request
download_headers(cfg) ==
    IF TruthyDict(cfg) /\ "sse_customer_key" \in DOMAIN cfg[1] THEN
        [algorithm |-> IF "sse_customer_algorithm" \in DOMAIN cfg[1]
                       THEN cfg[1]["sse_customer_algorithm"] ELSE AES256,
         key |-> cfg[1]["sse_customer_key"],
         key_md5 |-> cfg[1]["sse_customer_key_md5"]]
    ELSE EmptyDict

\* variant: a timeout has an exit status of its own
exit_status_timeout_apart(e) ==
    IF e.type = "ConfigError" THEN 2 ELSE IF e.type = "TimeoutError" THEN 3 ELSE 1

\* main(), lines 869-879: the exit status of an exception leaving the command
exit_status(e) == IF e.type = "ConfigError" THEN 2 ELSE 1

\* an exception leaves the command and main() exits
Exits(e) ==
    /\ error' = Some(e)
    /\ exit_code' = Some(exit_status(e))
    /\ pc' = "exit"

(***************************************************************************)
(* Task status responses                                                   *)
(***************************************************************************)
Task(status, attributes, message, total, progress_count) ==
    [status |-> status, attributes |-> attributes, message |-> message,
     total |-> total, progress |-> progress_count]
Attributes(url, err) == [download_url |-> url, error |-> err]

\* a field that is None is absent from the JSON (or null, for a field read
\* with .get); "attributes" is an object whenever it is present
FinishedTasks ==
    { Task(Some("FINISHED"), a, None, None, None) :
        a \in {None} \cup { Some(Attributes(u, None)) :
                              u \in {None, Some(""), Some("https://x/y")} } }
FailedTasks ==
    { Task(Some(st), a, m, None, None) :
        st \in {"FAILED", "CANCELED", "CANCELLED"},
        a \in {None, Some(Attributes(None, None)), Some(Attributes(None, Some("boom")))},
        m \in {None, Some("quota exceeded")} }
PendingTasks ==
    { Task(st, None, None, None, None) :
        st \in {None, Some("RUNNING"), Some("finished"), Some("Cancelled")} }
    \cup { Task(Some("RUNNING"), None, None, Some(0), None) }
    \cup { Task(Some("RUNNING"), None, None, Some(MaxTotal), p) :
             p \in {None} \cup { Some(n) : n \in 0..MaxTotal } }
Tasks == FinishedTasks \cup FailedTasks \cup PendingTasks

attributes_get(d, key) == IF d.attributes = None THEN None ELSE d.attributes[1][key]

\* line 544
error_details(d) ==
    IF TruthyText(d.message) THEN <<"message", d.message[1]>>
    ELSE IF TruthyText(attributes_get(d, "error"))
         THEN <<"attributes.error", attributes_get(d, "error")[1]>>
    ELSE <<"data", d>>

is_finished(d) == d.status = Some("FINISHED")

\* variant: the British spelling is forgotten
is_failed_one_spelling(d) == d.status \in {Some("FAILED"), Some("CANCELED")}

\* variant: the status is compared without regard to case
is_failed_any_case(d) ==
    d.status \in {Some("FAILED"), Some("CANCELED"), Some("CANCELLED"), Some("Cancelled")}

is_failed(d) == d.status \in {Some("FAILED"), Some("CANCELED"), Some("CANCELLED")}

IntOr0(x) == IF TruthyInt(x) THEN x[1] ELSE 0

NoEta == [kind |-> "none", num |-> 0, den |-> 1]
Calculating == [kind |-> "calculating", num |-> 0, den |-> 1]

\* numbers are fractions num / den with den > 0; x / y of Python raises
\* ZeroDivisionError when y is zero
Number(n) == [num |-> n, den |-> 1]
ZeroDivisionError == [type |-> "ZeroDivisionError"]
truediv(x, y) ==
    IF y.num = 0 THEN Raise(ZeroDivisionError)
    ELSE IF y.num > 0 THEN Return([num |-> x.num * y.den, den |-> x.den * y.num])
    ELSE Return([num |-> -(x.num * y.den), den |-> -(x.den * y.num)])

\* int(x): the fraction truncated towards zero
int(x) == IF x.num >= 0 THEN x.num \div x.den ELSE -((-x.num) \div x.den)

\* lines 134-142: the text of a duration, as the numbers and units it shows
format_time_delta(seconds) ==
    IF seconds.num < 60 * seconds.den THEN << int(seconds), "s" >>
    ELSE IF seconds.num < 3600 * seconds.den THEN
        LET minutes == seconds.num \div (60 * seconds.den)
            secs == (seconds.num \div seconds.den) % 60
        IN IF secs > 0 THEN << minutes, "m", secs, "s" >> ELSE << minutes, "m" >>
    ELSE
        LET hours == seconds.num \div (3600 * seconds.den)
            minutes == ((seconds.num \div seconds.den) % 3600) \div 60
        IN IF minutes > 0 THEN << hours, "h", minutes, "m" >> ELSE << hours, "h" >>

\* lines 554-567: remaining_seconds is the fraction num / den
eta(total, progress_count, last_count, last_time, poll_time) ==
    IF last_count # None /\ last_time # None /\ progress_count > last_count[1] THEN
        LET time_diff == poll_time - last_time[1]
            progress_diff == progress_count - last_count[1]
        IN IF time_diff > 0 /\ progress_diff > 0
           THEN LET items_per_second == truediv(Number(progress_diff), Number(time_diff))
                    remaining_items == total - progress_count
                IN IF items_per_second.raised THEN items_per_second
                   ELSE LET remaining_seconds ==
                                truediv(Number(remaining_items), items_per_second.value)
                        IN IF remaining_seconds.raised THEN remaining_seconds
                           ELSE Return([kind |-> "value",
                                        num |-> remaining_seconds.value.num,
                                        den |-> remaining_seconds.value.den,
                                        text |-> format_time_delta(remaining_seconds.value)])
           ELSE Return(Calculating)
    ELSE Return(Calculating)

\* variant: the rate is measured from the first sample of the poll
progress_line_from_first_sample(d, last_count, last_time, poll_time) ==
    LET total == IntOr0(d.total)
        progress_count == IntOr0(d.progress)
    IN IF total > 0 THEN
            LET percent == truediv(Number(100 * progress_count), Number(total))
                e == eta(total, progress_count, last_count, last_time, poll_time)
            IN IF percent.raised THEN percent
               ELSE IF e.raised THEN e
               ELSE Return([progress |-> Some(<< percent.value.num, percent.value.den >>),
                            eta_str |-> e.value,
                            last_progress_count |->
                                IF last_count = None THEN Some(progress_count) ELSE last_count,
                            last_poll_time |->
                                IF last_time = None THEN Some(poll_time) ELSE last_time])
       ELSE Return([progress |-> None, eta_str |-> NoEta,
                    last_progress_count |-> last_count, last_poll_time |-> last_time])

\* variant: the percentage is computed whatever the total is
progress_line_any_total(d, last_count, last_time, poll_time) ==
    LET total == IntOr0(d.total)
        progress_count == IntOr0(d.progress)
        percent == truediv(Number(100 * progress_count), Number(total))
        e == eta(total, progress_count, last_count, last_time, poll_time)
    IN IF percent.raised THEN percent
       ELSE IF e.raised THEN e
       ELSE Return([progress |-> Some(<< percent.value.num, percent.value.den >>),
                    eta_str |-> e.value,
                    last_progress_count |-> Some(progress_count),
                    last_poll_time |-> Some(poll_time)])

\* lines 547-598: the progress line of a task that is still running, and the
\* previous sample kept for the next iteration
progress_line(d, last_count, last_time, poll_time) ==
    LET total == IntOr0(d.total)
        progress_count == IntOr0(d.progress)
    IN IF total > 0 THEN
            LET percent == truediv(Number(100 * progress_count), Number(total))
                e == eta(total, progress_count, last_count, last_time, poll_time)
            IN IF percent.raised THEN percent
               ELSE IF e.raised THEN e
               ELSE Return([progress |-> Some(<< percent.value.num, percent.value.den >>),
                            eta_str |-> e.value,
                            last_progress_count |-> Some(progress_count),
                            last_poll_time |-> Some(poll_time)])
       ELSE Return([progress |-> None, eta_str |-> NoEta,
                    last_progress_count |-> last_count, last_poll_time |-> last_time])

(***************************************************************************)
(* Invocations                                                             *)
(***************************************************************************)
Str(bytes) == b64encode(bytes)

\* keys a user may pass: well-formed ones of several lengths, one with its
\* last character cut off, one with a character outside the alphabet in
\* front, one with data after the padding
UserKey(n) == Str(urandom(n, 170))
UserKeys ==
    { UserKey(n) : n \in (SSE_KEY_BYTES - KeySlack)..(SSE_KEY_BYTES + KeySlack) }
    \cup { SubSeq(UserKey(SSE_KEY_BYTES), 1, Len(UserKey(SSE_KEY_BYTES)) - 1),
           <<33>> \o UserKey(SSE_KEY_BYTES),
           UserKey(SSE_KEY_BYTES) \o <<65>> }
EnvKey == Str(urandom(SSE_KEY_BYTES, 85))
UserMd5 == b64encode(md5_digest(urandom(SSE_KEY_BYTES, 170)))
BUCKET == <<98>>
REGION == <<114>>
KMS == <<75, 77, 83>>

ExportArgs(key, md5, alg, no_sse_c, bucket, interval, max_wait, no_download) ==
    [job_uuid |-> "job-1", api_host |-> None, interval |-> interval,
     max_wait |-> max_wait, no_download |-> no_download, output |-> None,
     fields |-> None, s3_bucket |-> bucket, s3_prefix |-> None,
     s3_access_key |-> None, s3_secret_key |-> None, s3_endpoint |-> None,
     s3_region |-> None, no_sse_c |-> no_sse_c, s3_sse_c_key |-> key,
     s3_sse_c_key_md5 |-> md5, s3_sse_c_algorithm |-> alg]

DownloadArgs(key, md5, alg, no_sse_c) ==
    [task_uuid |-> "task-1", api_host |-> None, output |-> None,
     no_sse_c |-> no_sse_c, s3_sse_c_key |-> key, s3_sse_c_key_md5 |-> md5,
     s3_sse_c_algorithm |-> alg]

\* os.environ with the given variables set (None: unset)
Environ(api_key, key, md5, region) ==
    LET set == [API_KEY |-> api_key, S3_SSE_C_KEY |-> key, S3_SSE_C_KEY_MD5 |-> md5,
                S3_REGION_NAME |-> region]
    IN [k \in { n \in DOMAIN set : set[n] # None } |-> set[k][1]]

Locals ==
    /\ now = 0
    /\ auto_generate_key = None
    /\ api_host = None /\ session = None
    /\ s3_config = None /\ generated_key = None /\ fields = <<>>
    /\ task_uuid = None /\ download_url = None
    /\ posts = <<>> /\ downloads = <<>> /\ gets = <<>>
    /\ fetches = 0 /\ sleeps = 0
    /\ max_wait_s = None /\ interval_s = DEFAULT_INTERVAL_S
    /\ start_time = None /\ deadline = None
    /\ last_progress_count = None /\ last_poll_time = None
    /\ current_poll_time = None
    /\ data = None /\ progress = None /\ eta_str = NoEta
    /\ error = None /\ exit_code = None

\* the export command, from the start of cmd_export: every encryption setting
\* with the default polling options, and every polling option with
\* encryption disabled
Init ==
    /\ command = "export"
    /\ pc = "start"
    /\ \/ \E key \in {None, Some(UserKey(SSE_KEY_BYTES))},
             sse \in { <<FALSE, None>>, <<TRUE, None>>, <<TRUE, Some(BUCKET)>> },
             no_download \in BOOLEAN :
               args = ExportArgs(key, None, None, sse[1], sse[2], 1, None, no_download)
       \/ \E interval \in 1..MaxInterval,
             max_wait \in {None} \cup { Some(n) : n \in (-1)..MaxWait } :
               args = ExportArgs(None, None, None, TRUE, None, interval, max_wait, FALSE)
    /\ \E api_key \in {None, Some(""), Some("secret")} :
            env = Environ(api_key, None, None, None)
    /\ Locals
    /\ frames = <<>>

\* the parsed command line of the status command
StatusArgs == [task_uuid |-> "task-1", api_host |-> None]

\* os.environ with API_KEY and API_HOST set as given (None: unset)
EnvironHost(api_key, host) ==
    LET set == [API_KEY |-> api_key, API_HOST |-> host]
    IN [k \in { n \in DOMAIN set : set[n] # None } |-> set[k][1]]

\* every command at its start, with and without a host on the command line
\* and in the environment
InitStart ==
    /\ command \in {"export", "status", "download"}
    /\ pc = "start"
    /\ \E host \in {None, Some(""), Some("api.us.sekoia.io")} :
        LET a == IF command = "export"
                 THEN ExportArgs(None, None, None, FALSE, None, DEFAULT_INTERVAL_S,
                                 None, FALSE)
                 ELSE IF command = "download" THEN DownloadArgs(None, None, None, FALSE)
                 ELSE StatusArgs
        IN args = [a EXCEPT !.api_host = host]
    /\ \E api_key \in {None, Some(""), Some("secret")},
          host \in {None, Some(""), Some("api.eu.sekoia.io")} :
            env = EnvironHost(api_key, host)
    /\ Locals
    /\ frames = <<>>

\* the commands that build a configuration, at their call of build_s3_config
InitBuild ==
    /\ command \in {"export", "download"}
    /\ pc = "build"
    /\ \E key \in {None, Some(<<>>)} \cup { Some(k) : k \in UserKeys },
          md5 \in {None, Some(<<>>), Some(UserMd5)},
          alg \in {None, Some(KMS)},
          no_sse_c \in BOOLEAN,
          bucket \in {None, Some(BUCKET)} :
            args = IF command = "export"
                   THEN ExportArgs(key, md5, alg, no_sse_c, bucket, DEFAULT_INTERVAL_S,
                                   None, FALSE)
                   ELSE DownloadArgs(key, md5, alg, no_sse_c)
    /\ \E key \in {None, Some(<<>>), Some(EnvKey)},
          md5 \in {None, Some(UserMd5)},
          region \in {None, Some(REGION)} :
            env = Environ(Some("secret"), key, md5, region)
    /\ Locals
    /\ frames = <<>>

(***************************************************************************)
(* cmd_export                                                              *)
(***************************************************************************)
poll_vars == << fetches, sleeps, max_wait_s, interval_s, start_time, deadline,
                last_progress_count, last_poll_time, current_poll_time, data,
                progress, eta_str, download_url >>
cmd_vars == << api_host, session, s3_config, generated_key, fields, task_uuid,
               auto_generate_key >>
io_vars == << posts, downloads, gets >>
inv_vars == << command, args, env >>

\* lines 604-605
ExportStart ==
    /\ command = "export" /\ pc = "start"
    /\ api_host' = Some(get_api_host(args.api_host, env))
    /\ LET r == create_http_session(env) IN
        IF r.raised
        THEN Exits(r.error) /\ UNCHANGED session
        ELSE /\ session' = Some(r.value)
             /\ pc' = "build"
             /\ UNCHANGED << error, exit_code >>
    /\ UNCHANGED << inv_vars, frames, now, s3_config, generated_key, fields, task_uuid,
                    auto_generate_key, io_vars, poll_vars >>

\* cmd_status, lines 666-667
StatusStart ==
    /\ command = "status" /\ pc = "start"
    /\ api_host' = Some(get_api_host(args.api_host, env))
    /\ LET r == create_http_session(env) IN
        IF r.raised
        THEN Exits(r.error) /\ UNCHANGED session
        ELSE /\ session' = Some(r.value)
             /\ pc' = "fetch_task"
             /\ UNCHANGED << error, exit_code >>
    /\ UNCHANGED << inv_vars, frames, now, s3_config, generated_key, fields, task_uuid,
                    auto_generate_key, io_vars, poll_vars >>

\* cmd_download, lines 720-721
DownloadStart ==
    /\ command = "download" /\ pc = "start"
    /\ api_host' = Some(get_api_host(args.api_host, env))
    /\ LET r == create_http_session(env) IN
        IF r.raised
        THEN Exits(r.error) /\ UNCHANGED session
        ELSE /\ session' = Some(r.value)
             /\ pc' = "build"
             /\ UNCHANGED << error, exit_code >>
    /\ UNCHANGED << inv_vars, frames, now, s3_config, generated_key, fields, task_uuid,
                    auto_generate_key, io_vars, poll_vars >>

\* build_s3_config called with auto_generate_key = auto; rnd is what
\* os.urandom returns if it is called
Build(auto, rnd, next) ==
    /\ auto_generate_key' = Some(auto)
    /\ LET r == build_s3_config(args, env, auto, rnd) IN
        IF r.raised
        THEN Exits(r.error) /\ UNCHANGED s3_config
        ELSE /\ s3_config' = r.value
             /\ pc' = next
             /\ UNCHANGED << error, exit_code >>

\* lines 606-607
ExportBuild ==
    /\ command = "export" /\ pc = "build"
    /\ \E rnd \in 0..MaxRandByte : Build(TRUE, rnd, "show")
    /\ fields' = DEFAULT_EXPORT_FIELDS
    /\ UNCHANGED << inv_vars, frames, now, api_host, session, generated_key, task_uuid,
                    io_vars, poll_vars >>

\* line 723
DownloadBuild ==
    /\ command = "download" /\ pc = "build"
    /\ \E rnd \in 0..MaxRandByte : Build(FALSE, rnd, "fetch_task")
    /\ UNCHANGED << inv_vars, frames, now, api_host, session, generated_key, fields,
                    task_uuid, io_vars, poll_vars >>

\* variant: the marker is read and left in place
get_generated_key(cfg) ==
    IF "_generated_key" \in DOMAIN cfg
    THEN [popped |-> Some(cfg["_generated_key"]), cfg |-> cfg]
    ELSE [popped |-> None, cfg |-> cfg]

\* line 617: s3_config.pop("_generated_key", None)
pop_generated_key(cfg) ==
    IF "_generated_key" \in DOMAIN cfg
    THEN [popped |-> Some(cfg["_generated_key"]), cfg |-> DictPop(cfg, "_generated_key")]
    ELSE [popped |-> None, cfg |-> cfg]

\* lines 615-647
ExportShow ==
    /\ command = "export" /\ pc = "show"
    /\ IF TruthyDict(s3_config)
       THEN LET r == pop_generated_key(s3_config[1]) IN
            /\ generated_key' = r.popped
            /\ s3_config' = Some(r.cfg)
       ELSE UNCHANGED << generated_key, s3_config >>
    /\ pc' = "trigger"
    /\ UNCHANGED << inv_vars, frames, now, api_host, session, fields, task_uuid,
                    auto_generate_key, io_vars, poll_vars, error, exit_code >>

ExportResponses ==
    { [status_code |-> c, task_uuid |-> t] :
        c \in {202, 500}, t \in {None, Some("task-1"), Some("task-2")} }

\* line 649 and trigger_export
ExportTrigger ==
    /\ command = "export" /\ pc = "trigger"
    /\ posts' = Append(posts, export_body(s3_config, fields))
    /\ \E resp \in ExportResponses :
        IF resp.status_code \notin {200, 201, 202}
        THEN /\ Exits([type |-> "RuntimeError", reason |-> "trigger"])
             /\ UNCHANGED task_uuid
        ELSE IF ~TruthyText(resp.task_uuid)
        THEN /\ Exits([type |-> "RuntimeError", reason |-> "no task uuid"])
             /\ UNCHANGED task_uuid
        ELSE /\ task_uuid' = resp.task_uuid
             /\ pc' = "poll"
             /\ UNCHANGED << error, exit_code >>
    /\ UNCHANGED << inv_vars, frames, now, api_host, session, s3_config, generated_key,
                    fields, auto_generate_key, downloads, gets, poll_vars >>

(***************************************************************************)
(* poll_status                                                             *)
(***************************************************************************)
\* lines 653 and 515-520
PollStart ==
    /\ command = "export" /\ pc = "poll"
    /\ interval_s' = args.interval
    /\ max_wait_s' = args.max_wait
    /\ start_time' = Some(now)
    /\ deadline' = IF TruthyInt(args.max_wait) THEN Some(now + args.max_wait[1]) ELSE None
    /\ last_progress_count' = None
    /\ last_poll_time' = None
    /\ pc' = "loop"
    /\ UNCHANGED << inv_vars, frames, now, cmd_vars, io_vars, fetches, sleeps,
                    current_poll_time, data, progress, eta_str, download_url,
                    error, exit_code >>

\* lines 522-526: the deadline check at the top of the loop
PollCheck ==
    /\ command = "export" /\ pc = "loop"
    /\ IF deadline # None /\ now >= deadline[1]
       THEN /\ Exits([type |-> "TimeoutError", reason |-> "deadline"])
            /\ UNCHANGED current_poll_time
       ELSE /\ fetches < MaxFetches
            /\ current_poll_time' = Some(now)
            /\ pc' = "fetch"
            /\ UNCHANGED << error, exit_code >>
    /\ UNCHANGED << inv_vars, frames, now, cmd_vars, io_vars, fetches, sleeps, max_wait_s,
                    interval_s, start_time, deadline, last_progress_count,
                    last_poll_time, data, progress, eta_str, download_url >>

\* lines 547-599: a task that is still running is shown and polled again
Pending(d) ==
    LET r == progress_line(d, last_progress_count, last_poll_time, current_poll_time[1])
    IN IF r.raised
       THEN /\ Exits(r.error)
            /\ UNCHANGED << progress, eta_str, last_progress_count, last_poll_time >>
       ELSE /\ progress' = r.value.progress
            /\ eta_str' = r.value.eta_str
            /\ last_progress_count' = r.value.last_progress_count
            /\ last_poll_time' = r.value.last_poll_time
            /\ pc' = "sleep"
            /\ UNCHANGED << error, exit_code >>

\* variant: a finished task without a download URL is polled again
Dispatch_until_url(d) ==
    IF is_finished(d) /\ TruthyText(attributes_get(d, "download_url"))
    THEN /\ download_url' = attributes_get(d, "download_url")
         /\ pc' = "polled"
         /\ UNCHANGED << error, exit_code, progress, eta_str, last_progress_count,
                         last_poll_time >>
    ELSE IF is_failed(d)
    THEN /\ Exits([type |-> "RuntimeError", reason |-> "task", status |-> d.status[1],
                   details |-> error_details(d)])
         /\ UNCHANGED << download_url, progress, eta_str, last_progress_count,
                         last_poll_time >>
    ELSE /\ Pending(d)
         /\ UNCHANGED download_url

\* variant: the deadline is checked again when the fetch returns
Dispatch_deadline_rechecked(d) ==
    IF deadline # None /\ now' >= deadline[1]
    THEN /\ Exits([type |-> "TimeoutError", reason |-> "deadline"])
         /\ UNCHANGED << download_url, progress, eta_str, last_progress_count,
                         last_poll_time >>
    ELSE IF is_finished(d)
    THEN /\ download_url' = attributes_get(d, "download_url")
         /\ pc' = "polled"
         /\ UNCHANGED << error, exit_code, progress, eta_str, last_progress_count,
                         last_poll_time >>
    ELSE IF is_failed(d)
    THEN /\ Exits([type |-> "RuntimeError", reason |-> "task", status |-> d.status[1],
                   details |-> error_details(d)])
         /\ UNCHANGED << download_url, progress, eta_str, last_progress_count,
                         last_poll_time >>
    ELSE /\ Pending(d)
         /\ UNCHANGED download_url

\* what poll_status does with the task status it fetched (lines 529-598)
Dispatch(d) ==
    IF is_finished(d)
    THEN /\ download_url' = attributes_get(d, "download_url")
         /\ pc' = "polled"
         /\ UNCHANGED << error, exit_code, progress, eta_str, last_progress_count,
                         last_poll_time >>
    ELSE IF is_failed(d)
    THEN /\ Exits([type |-> "RuntimeError", reason |-> "task", status |-> d.status[1],
                   details |-> error_details(d)])
         /\ UNCHANGED << download_url, progress, eta_str, last_progress_count,
                         last_poll_time >>
    ELSE /\ Pending(d)
         /\ UNCHANGED download_url

\* HTTP status codes of the task endpoint
StatusCodes == {200, 201, 500}

\* variant: a failed status request is tried again after the interval
fetch_task_failed_retried ==
    /\ pc' = "sleep"
    /\ UNCHANGED << error, exit_code, data, download_url, progress, eta_str,
                    last_progress_count, last_poll_time >>

\* lines 487-488 under line 527: the error of fetch_task leaves poll_status
fetch_task_failed ==
    /\ Exits([type |-> "RuntimeError", reason |-> "fetch"])
    /\ UNCHANGED << data, download_url, progress, eta_str,
                    last_progress_count, last_poll_time >>

\* line 527 and fetch_task: the request for the task takes delay seconds and
\* is answered by a status code, with a task status when the code is 200
PollFetch ==
    /\ command = "export" /\ pc = "fetch"
    /\ fetches' = fetches + 1
    /\ \E delay \in 0..MaxFetchDelay, code \in StatusCodes :
        /\ now' = now + delay
        /\ gets' = Append(gets, [task_uuid |-> task_uuid[1], status_code |-> code])
        /\ IF code # 200
           THEN fetch_task_failed
           ELSE \E d \in Tasks :
                    /\ data' = Some(d)
                    /\ Dispatch(d)
    /\ UNCHANGED << inv_vars, frames, cmd_vars, posts, downloads, sleeps, max_wait_s,
                    interval_s, start_time, deadline, current_poll_time >>

\* line 599
PollSleep ==
    /\ command = "export" /\ pc = "sleep"
    /\ now' = now + interval_s
    /\ sleeps' = sleeps + 1
    /\ pc' = "loop"
    /\ UNCHANGED << inv_vars, frames, cmd_vars, io_vars, fetches, max_wait_s, interval_s,
                    start_time, deadline, last_progress_count, last_poll_time,
                    current_poll_time, data, progress, eta_str, download_url,
                    error, exit_code >>

\* variant: the download is attempted whatever the poll returned
should_download_any_url(url, a) == ~a.no_download

\* line 656
should_download(url, a) == TruthyText(url) /\ ~a.no_download

\* lines 655-661: the download; ok tells whether download_file returned or
\* raised, and its error is printed and not raised again
ExportDownload ==
    /\ command = "export" /\ pc = "polled"
    /\ IF should_download(download_url, args)
       THEN \E ok \in BOOLEAN :
                downloads' = Append(downloads, [url |-> download_url,
                                                s3_config |-> s3_config,
                                                headers |-> download_headers(s3_config),
                                                ok |-> ok])
       ELSE UNCHANGED downloads
    /\ exit_code' = Some(0)
    /\ pc' = "exit"
    /\ UNCHANGED << inv_vars, frames, now, cmd_vars, posts, gets, poll_vars, error >>

Next ==
    \/ ExportStart
    \/ ExportBuild
    \/ ExportShow
    \/ ExportTrigger
    \/ PollStart
    \/ PollCheck
    \/ PollFetch
    \/ PollSleep
    \/ ExportDownload

Spec == Init /\ [][Next]_vars

NextBuild == ExportBuild \/ DownloadBuild

SpecBuild == InitBuild /\ [][NextBuild]_vars

NextStart == ExportStart \/ StatusStart \/ DownloadStart

SpecStart == InitStart /\ [][NextStart]_vars

(***************************************************************************)
(* The poll of cmd_export followed for as long as it runs: the requests    *)
(* and the sleeps are neither counted nor recorded, and the clock is told  *)
(* apart up to Horizon seconds                                             *)
(***************************************************************************)
\* the export command with encryption disabled, an API key and every
\* polling option
InitLive ==
    /\ command = "export"
    /\ pc = "start"
    /\ \E interval \in 1..MaxInterval,
          max_wait \in {None} \cup { Some(n) : n \in (-1)..MaxWait } :
            args = ExportArgs(None, None, None, TRUE, None, interval, max_wait, FALSE)
    /\ env = Environ(Some("secret"), None, None, None)
    /\ Locals
    /\ frames = <<>>

\* the clock s seconds after t
Later(t, s) == IF t + s > Horizon THEN Horizon ELSE t + s

\* lines 522-526: the deadline check at the top of the loop
PollCheckLive ==
    /\ command = "export" /\ pc = "loop"
    /\ IF deadline # None /\ now >= deadline[1]
       THEN /\ Exits([type |-> "TimeoutError", reason |-> "deadline"])
            /\ UNCHANGED current_poll_time
       ELSE /\ current_poll_time' = Some(now)
            /\ pc' = "fetch"
            /\ UNCHANGED << error, exit_code >>
    /\ UNCHANGED << inv_vars, frames, now, cmd_vars, io_vars, fetches, sleeps, max_wait_s,
                    interval_s, start_time, deadline, last_progress_count,
                    last_poll_time, data, progress, eta_str, download_url >>

\* line 527 and lines 529-598: the status request returns after delay
\* seconds, with an error or with a task status that poll_status acts on
PollFetchLive ==
    /\ command = "export" /\ pc = "fetch"
    /\ \E delay \in 0..MaxFetchDelay, code \in StatusCodes :
        /\ now' = Later(now, delay)
        /\ IF code # 200
           THEN fetch_task_failed
           ELSE \E d \in Tasks :
                    /\ data' = Some(d)
                    /\ Dispatch(d)
    /\ UNCHANGED << inv_vars, frames, cmd_vars, io_vars, fetches, sleeps, max_wait_s,
                    interval_s, start_time, deadline, current_poll_time >>

\* line 599: time.sleep returns after the interval
PollSleepLive ==
    /\ command = "export" /\ pc = "sleep"
    /\ now' = Later(now, interval_s)
    /\ pc' = "loop"
    /\ UNCHANGED << inv_vars, frames, cmd_vars, io_vars, fetches, sleeps, max_wait_s,
                    interval_s, start_time, deadline, last_progress_count,
                    last_poll_time, current_poll_time, data, progress, eta_str,
                    download_url, error, exit_code >>

NextLive ==
    \/ ExportStart
    \/ ExportBuild
    \/ ExportShow
    \/ ExportTrigger
    \/ PollStart
    \/ PollCheckLive
    \/ PollFetchLive
    \/ PollSleepLive
    \/ ExportDownload

\* the command runs on one thread and every call it makes returns
SpecLive == InitLive /\ [][NextLive]_vars /\ WF_vars(NextLive)

(***************************************************************************)
(* poll_status called by a library user for two tasks at once              *)
(***************************************************************************)
Pollers == {1, 2}

\* the frame of a call of poll_status: its arguments and its locals; samples
\* is the history of the task statuses it fetched, each with its poll time
Frame(task, interval, max_wait) ==
    [pc |-> "start", task_uuid |-> task, interval_s |-> interval,
     max_wait_s |-> max_wait, start_time |-> None, deadline |-> None,
     last_progress_count |-> None, last_poll_time |-> None,
     current_poll_time |-> None, wake |-> None, samples |-> <<>>,
     progress |-> None, eta_str |-> NoEta, download_url |-> None, error |-> None]

\* task statuses served to the two polls
ThreadTasks ==
    { Task(Some("RUNNING"), None, None, Some(MaxTotal), Some(n)) : n \in {0, 1} }
    \cup { Task(Some("FINISHED"), Some(Attributes(Some("https://x/y"), None)), None,
                None, None),
           Task(Some("FAILED"), None, Some("quota exceeded"), None, None) }

other_vars == << command, args, env, auto_generate_key, pc, api_host, session,
                 s3_config, generated_key, fields, task_uuid, download_url, posts,
                 downloads, gets, fetches, sleeps, max_wait_s, interval_s,
                 start_time, deadline, last_progress_count, last_poll_time,
                 current_poll_time, data, progress, eta_str, error, exit_code >>

InitThreads ==
    /\ command = "poll_status"
    /\ pc = "threads"
    /\ args = StatusArgs
    /\ env = Environ(Some("secret"), None, None, None)
    /\ Locals
    /\ \E w1, w2 \in {None, Some(MaxWait)} :
        frames = [p \in Pollers |->
                    IF p = 1 THEN Frame("task-1", 1, w1)
                    ELSE Frame("task-2", DEFAULT_INTERVAL_S, w2)]

\* variant: the previous sample is kept in one place for all the calls
previous_sample_shared(p) ==
    LET seen == { q \in Pollers : frames[q].last_poll_time # None }
        last == CHOOSE q \in seen :
                    \A r \in seen : frames[r].last_poll_time[1] <= frames[q].last_poll_time[1]
    IN IF seen = {} THEN [count |-> None, time |-> None]
       ELSE [count |-> frames[last].last_progress_count,
             time |-> frames[last].last_poll_time]

\* lines 519-520 and 570-571: the previous sample is a local of the call
previous_sample(p) ==
    [count |-> frames[p].last_progress_count, time |-> frames[p].last_poll_time]

\* lines 515-520
ThreadStart(p) ==
    /\ frames[p].pc = "start"
    /\ frames' = [frames EXCEPT ![p] =
            [@ EXCEPT !.pc = "loop",
                      !.start_time = Some(now),
                      !.deadline = IF TruthyInt(frames[p].max_wait_s)
                                   THEN Some(now + frames[p].max_wait_s[1])
                                   ELSE None,
                      !.last_progress_count = None,
                      !.last_poll_time = None]]
    /\ UNCHANGED << now, other_vars >>

\* lines 522-526
ThreadCheck(p) ==
    /\ frames[p].pc = "loop"
    /\ IF frames[p].deadline # None /\ now >= frames[p].deadline[1]
       THEN frames' = [frames EXCEPT ![p] =
                [@ EXCEPT !.pc = "raised",
                          !.error = Some([type |-> "TimeoutError", reason |-> "deadline"])]]
       ELSE /\ Len(frames[p].samples) < MaxSamples
            /\ frames' = [frames EXCEPT ![p] =
                [@ EXCEPT !.pc = "fetch", !.current_poll_time = Some(now)]]
    /\ UNCHANGED << now, other_vars >>

\* lines 527-598: the task status fetched and what the call does with it
ThreadFetch(p) ==
    /\ frames[p].pc = "fetch"
    /\ \E d \in ThreadTasks :
        LET f == [frames[p] EXCEPT
                    !.samples = Append(@, [time |-> frames[p].current_poll_time[1],
                                           data |-> d])]
            prev == previous_sample(p)
            r == progress_line(d, prev.count, prev.time, f.current_poll_time[1])
        IN frames' = [frames EXCEPT ![p] =
            IF is_finished(d)
            THEN [f EXCEPT !.pc = "returned",
                           !.download_url = attributes_get(d, "download_url")]
            ELSE IF is_failed(d)
            THEN [f EXCEPT !.pc = "raised",
                           !.error = Some([type |-> "RuntimeError", reason |-> "task",
                                           status |-> d.status[1],
                                           details |-> error_details(d)])]
            ELSE IF r.raised
            THEN [f EXCEPT !.pc = "raised", !.error = Some(r.error)]
            ELSE [f EXCEPT !.pc = "sleep",
                           !.progress = r.value.progress,
                           !.eta_str = r.value.eta_str,
                           !.last_progress_count = r.value.last_progress_count,
                           !.last_poll_time = r.value.last_poll_time,
                           !.wake = Some(now + f.interval_s)]]
    /\ UNCHANGED << now, other_vars >>

\* line 599: time.sleep(interval_s) returns once the interval has passed
ThreadWake(p) ==
    /\ frames[p].pc = "sleep"
    /\ now >= frames[p].wake[1]
    /\ frames' = [frames EXCEPT ![p] = [@ EXCEPT !.pc = "loop"]]
    /\ UNCHANGED << now, other_vars >>

\* the clock, which the two calls read
Tick ==
    /\ pc = "threads"
    /\ now < MaxClock
    /\ now' = now + 1
    /\ UNCHANGED << frames, other_vars >>

NextThreads ==
    \/ \E p \in Pollers : ThreadStart(p)
    \/ \E p \in Pollers : ThreadCheck(p)
    \/ \E p \in Pollers : ThreadFetch(p)
    \/ \E p \in Pollers : ThreadWake(p)
    \/ Tick

SpecThreads == InitThreads /\ [][NextThreads]_vars

(***************************************************************************)
(* Properties of poll_status (specification Spec)                          *)
(***************************************************************************)
PollRunning == pc \in {"loop", "fetch", "sleep"}
PollEntered == start_time # None
TerminalStatuses == {"FINISHED", "FAILED", "CANCELED", "CANCELLED"}
FailureStatuses == {"FAILED", "CANCELED", "CANCELLED"}
StatusOf(d) == d[1].status
\* a step of poll_status that fetched a task status (and was not refused by
\* the server)
FetchedStep ==
    /\ fetches' = fetches + 1
    /\ ~(error' # None /\ error'[1].reason = "fetch")
NoMoreFetchOrSleep == fetches' = fetches /\ sleeps' = sleeps
TimedOut == error # None /\ error[1].type = "TimeoutError"

\* C1: a poll entered with a maximum wait that is already reached (zero or
\* negative) fetches nothing and ends with TimeoutError.
C1_ReachedDeadlineNoFetch ==
    (PollEntered /\ max_wait_s # None /\ max_wait_s[1] <= 0)
        => /\ fetches = 0
           /\ pc \in {"loop", "exit"}
           /\ (pc = "exit" => TimedOut)

\* the download_url member of a task status, None when "attributes" or the
\* member is missing
UrlCarried(d) ==
    IF d[1].attributes = None THEN None ELSE d[1].attributes[1].download_url

\* C2: once a fetch reported FINISHED, poll_status has returned the
\* download_url of that response (None when it has none) without an error,
\* and no status fetch and no sleep follows.
C2_FinishedReturnsUrl ==
    /\ [](data # None /\ StatusOf(data) = Some("FINISHED")
            => /\ pc \in {"polled", "exit"}
               /\ download_url = UrlCarried(data)
               /\ error = None)
    /\ [][data # None /\ StatusOf(data) = Some("FINISHED") => NoMoreFetchOrSleep]_vars

\* C2 happens: a poll returned the URL of a FINISHED task after a pending one
C2_Witness ==
    /\ pc = "polled" /\ fetches >= 2 /\ sleeps >= 1
    /\ download_url = Some("https://x/y")
    /\ StatusOf(data) = Some("FINISHED")

\* the detail of a failed task: its message, else its attributes.error, else
\* the whole response
DetailCarried(d) ==
    IF d[1].message # None /\ d[1].message[1] # "" THEN <<"message", d[1].message[1]>>
    ELSE IF d[1].attributes # None /\ d[1].attributes[1].error # None
            /\ d[1].attributes[1].error[1] # ""
         THEN <<"attributes.error", d[1].attributes[1].error[1]>>
    ELSE <<"data", d[1]>>

\* C3: once a fetch reported FAILED, CANCELED or CANCELLED, poll_status has
\* raised the task failure that carries this status and the detail of the
\* response, it returned no URL, and no status fetch follows; this is so for
\* each of the three statuses alike.
C3_FailureRaisesTaskFailed ==
    /\ [](data # None /\ StatusOf(data) # None /\ StatusOf(data)[1] \in FailureStatuses
            => /\ pc = "exit"
               /\ error = Some([type |-> "RuntimeError", reason |-> "task",
                                status |-> StatusOf(data)[1],
                                details |-> DetailCarried(data)])
               /\ exit_code = Some(1)
               /\ download_url = None
               /\ downloads = <<>>)
    /\ [][data # None /\ StatusOf(data) # None /\ StatusOf(data)[1] \in FailureStatuses
            => NoMoreFetchOrSleep]_vars

\* C3 happens: a task reported CANCELLED after a pending status, with the
\* detail taken from attributes.error
C3_Witness ==
    /\ pc = "exit" /\ fetches >= 2
    /\ StatusOf(data) = Some("CANCELLED")
    /\ error # None /\ error[1].reason = "task"
    /\ error[1].details = <<"attributes.error", "boom">>

IsPending(d) == StatusOf(d) = None \/ StatusOf(d)[1] \notin TerminalStatuses

\* C4: a fetched status other than the four terminal ones neither returns
\* nor fails: poll_status goes to sleep, sleeps for the interval and comes
\* back to the top of the loop, where, no maximum wait being given, it
\* fetches again.
C4_OtherStatusKeepsPolling ==
    /\ [][FetchedStep /\ IsPending(data')
            => /\ pc' = "sleep"
               /\ error' = None /\ exit_code' = None
               /\ download_url' = None]_vars
    /\ [][pc = "sleep"
            => pc' = "loop" /\ now' = now + interval_s /\ sleeps' = sleeps + 1
               /\ fetches' = fetches]_vars
    /\ [][pc = "loop" /\ max_wait_s = None
            => pc' = "fetch" /\ error' = None /\ exit_code' = None]_vars
    /\ [](max_wait_s = None /\ pc = "loop" /\ fetches < MaxFetches => ENABLED PollCheck)

\* C4 happens: with no maximum wait, a status spelled in another case was
\* slept on and the next fetch is under way
C4_Witness ==
    /\ pc = "fetch" /\ fetches = 2 /\ sleeps = 2
    /\ max_wait_s = None
    /\ StatusOf(data) = Some("Cancelled")

(***************************************************************************)
(* Properties of cmd_export (specification Spec)                           *)
(***************************************************************************)
HasMarker(cfg) == cfg # None /\ "_generated_key" \in DOMAIN cfg[1]

\* C10: from the call of trigger_export on, the configuration of cmd_export
\* holds no generated-key marker: neither a body POSTed to the server nor
\* the configuration handed to download_file contains it.
C10_MarkerNeverSent ==
    /\ (pc \in {"trigger", "poll", "loop", "fetch", "sleep", "polled"} \/ Len(posts) > 0
            => ~HasMarker(s3_config))
    /\ \A i \in 1..Len(posts) :
          posts[i] # None /\ "s3" \in DOMAIN posts[i][1]
            => "_generated_key" \notin DOMAIN posts[i][1]["s3"]

\* C10 happens: a generated key was marked, the marker was taken out and the
\* configuration was sent with the key
C10_Witness ==
    /\ Len(posts) = 1 /\ posts[1] # None
    /\ generated_key # None
    /\ posts[1][1]["s3"]["sse_customer_key"] = generated_key[1]

(***************************************************************************)
(* Properties of the progress line of poll_status (specification Spec)     *)
(***************************************************************************)
\* a step of poll_status that fetched a sample of a running task whose total
\* is positive
SampledStep == pc = "fetch" /\ pc' = "sleep" /\ IntOr0(data'[1].total) > 0

\* C11: on a sample of a running task with total > 0 the ETA is a number only
\* if the previous sample exists and its progress count is smaller, and then
\* it is (total - progress) / rate, the rate being the advance since the
\* previous sample over the time since the previous sample; it is
\* "calculating" otherwise; the sample then becomes the previous sample. The
\* samples (10, t = 0) and (20, t = 10) of a total of 100 give 80 seconds.
C11_EtaFromPrecedingSample ==
    /\ LET e == eta(100, 20, Some(10), Some(0), 10) IN
        /\ ~e.raised /\ e.value.kind = "value"
        /\ e.value.num = 80 * e.value.den
        /\ e.value.text = << 1, "m", 20, "s" >>
    /\ [][SampledStep =>
            LET total == IntOr0(data'[1].total)
                cur == IntOr0(data'[1].progress)
                t == current_poll_time[1]
            IN /\ last_progress_count' = Some(cur)
               /\ last_poll_time' = Some(t)
               /\ IF /\ last_progress_count # None /\ last_poll_time # None
                     /\ last_progress_count[1] < cur /\ last_poll_time[1] < t
                  THEN /\ eta_str'.kind = "value"
                       /\ eta_str'.num * (cur - last_progress_count[1])
                            = (total - cur) * (t - last_poll_time[1]) * eta_str'.den
                  ELSE eta_str' = Calculating]_vars

\* C11 happens: the third sample of a poll advanced on the second one and a
\* number was shown
C11_Witness ==
    /\ pc = "sleep" /\ fetches = 3
    /\ eta_str.kind = "value" /\ eta_str.num > 0
    /\ last_progress_count = Some(1)
    /\ data[1].progress = Some(1)

(***************************************************************************)
(* Properties of the errors of the export command (specification Spec)     *)
(***************************************************************************)
\* the four kinds of error
ErrorKind(e) ==
    IF e.type = "ConfigError" THEN "configuration"
    ELSE IF e.type = "TimeoutError" THEN "timeout"
    ELSE IF e.type = "RuntimeError" /\ e.reason = "task" THEN "task failure"
    ELSE IF e.type = "RuntimeError" THEN "transport"
    ELSE "other"
\* one error of each kind
ErrorSamples ==
    { ConfigError("API_KEY", 0),
      [type |-> "TimeoutError", reason |-> "deadline"],
      [type |-> "RuntimeError", reason |-> "task"],
      [type |-> "RuntimeError", reason |-> "fetch"] }
\* an error occurred in the run: one left the command, or download_file raised
DownloadFailed == \E i \in 1..Len(downloads) : ~downloads[i].ok
ErrorOccurred == error # None \/ DownloadFailed

\* C12: an export run in which a configuration error, a timeout, a task
\* failure or a transport error (that of the download included) occurred
\* never ends with exit status 0.
C12_NoErrorEndsInSuccess == exit_code = Some(0) => ~ErrorOccurred

\* C13: the exit code of a run that ended with an error tells the kind of the
\* error: no error of another kind ends the process with the same code.
C13_ExitCodeTellsKind ==
    error # None /\ exit_code # None =>
        \A e \in ErrorSamples :
            ErrorKind(e) # ErrorKind(error[1]) => exit_status(e) # exit_code[1]

\* C13, amended: a run that ended with an error exits with 2 when the error
\* is a configuration error, and with 1 when it is a timeout, a task
\* failure or a transport error alike.
C13_ConfigurationTwoOthersOne ==
    /\ error # None /\ pc = "exit" =>
        /\ ErrorKind(error[1]) \in {"configuration", "timeout", "task failure", "transport"}
        /\ exit_code = Some(IF ErrorKind(error[1]) = "configuration" THEN 2 ELSE 1)
    /\ \A e \in ErrorSamples :
        exit_status(e) = IF ErrorKind(e) = "configuration" THEN 2 ELSE 1

\* C13 happens: a poll that fetched and slept timed out, and the process
\* exits with the code of a task failure
C13_Witness ==
    /\ pc = "exit" /\ TimedOut /\ fetches >= 1
    /\ exit_code = Some(exit_status([type |-> "RuntimeError", reason |-> "task"]))

\* C14: a status request answered with a code other than 200 is the last
\* one of the poll: poll_status raises the error of the request at once,
\* without a sleep after it (each earlier request was followed by one sleep)
\* and without a URL.
C14_FailedFetchEndsPoll ==
    \A i \in 1..Len(gets) :
        gets[i].status_code # 200 =>
            /\ i = Len(gets) /\ fetches = i /\ sleeps = i - 1
            /\ pc = "exit"
            /\ error = Some([type |-> "RuntimeError", reason |-> "fetch"])
            /\ download_url = None /\ downloads = <<>>

\* C14 happens: the second status request of a poll was answered with 201
C14_Witness ==
    /\ Len(gets) = 2 /\ gets[2].status_code = 201
    /\ pc = "exit" /\ StatusOf(data) = Some("RUNNING")

\* C20: no division of the progress line divides by zero: the percentage is
\* computed only of a positive total, and the remaining time only when the
\* progress count advanced and time passed since the previous sample.
C20_NoDivisionByZero ==
    /\ [](error # None => error[1] # ZeroDivisionError)
    /\ [](progress # None => progress[1][2] > 0)
    /\ [](eta_str.kind = "value" => eta_str.den > 0)
    /\ [][pc = "fetch" /\ pc' = "sleep"
            => (progress' # None <=> IntOr0(data'[1].total) > 0)]_vars
    /\ [][pc = "fetch" /\ pc' = "sleep" /\ eta_str'.kind = "value"
            => /\ IntOr0(data'[1].total) > 0
               /\ last_progress_count # None /\ last_poll_time # None
               /\ IntOr0(data'[1].progress) - last_progress_count[1] > 0
               /\ current_poll_time[1] - last_poll_time[1] > 0]_vars

\* C20 happens: after a sample with a total, a sample with a total of zero
\* was shown and the poll goes on
C20_Witness ==
    /\ pc = "sleep" /\ fetches = 2 /\ error = None
    /\ data[1].total = Some(0) /\ progress = None
    /\ last_progress_count # None

(***************************************************************************)
(* Properties of the steps of cmd_export (specification Spec)              *)
(***************************************************************************)
Polling == pc \in {"poll", "loop", "fetch", "sleep", "polled"}

\* C15: the configuration is built once and before the export is triggered;
\* trigger_export is called once, with that configuration; the poll starts
\* after trigger_export returned a task id and every status request is for
\* that id; download_file is called at most once, after poll_status returned
\* a non-empty URL and unless --no-download is given, with that URL and the
\* configuration that was passed to trigger_export.
C15_StepsInOrder ==
    /\ [](Len(posts) <= 1 /\ Len(downloads) <= 1)
    /\ [](posts # <<>> => auto_generate_key = Some(TRUE))
    /\ [](Polling \/ gets # <<>> \/ downloads # <<>>
            => /\ Len(posts) = 1
               /\ posts[1] = export_body(s3_config, fields)
               /\ task_uuid # None /\ task_uuid[1] # "")
    /\ [](\A i \in 1..Len(gets) : gets[i].task_uuid = task_uuid[1])
    /\ [](downloads # <<>>
            => /\ pc = "exit" /\ error = None
               /\ StatusOf(data) = Some("FINISHED")
               /\ download_url # None /\ download_url[1] # ""
               /\ ~args.no_download
               /\ downloads[1].url = download_url
               /\ downloads[1].s3_config = s3_config
               /\ IF s3_config # None
                  THEN posts[1][1]["s3"] = downloads[1].s3_config[1]
                  ELSE "s3" \notin DOMAIN posts[1][1])
    /\ [][auto_generate_key' # auto_generate_key
            => auto_generate_key = None /\ posts = <<>>]_vars
    /\ [][task_uuid' # task_uuid
            => task_uuid = None /\ posts = <<>> /\ Len(posts') = 1 /\ gets = <<>>]_vars
    /\ [][s3_config' # s3_config => posts = <<>>]_vars

\* C15 happens: the file of the task that trigger_export named was
\* downloaded after two status requests, with the key sent in the export
C15_Witness ==
    /\ Len(downloads) = 1 /\ Len(gets) = 2 /\ Len(posts) = 1
    /\ task_uuid = Some("task-2") /\ gets[2].task_uuid = "task-2"
    /\ s3_config # None /\ "sse_customer_key" \in DOMAIN s3_config[1]
    /\ downloads[1].s3_config = Some(posts[1][1]["s3"])

SseHeaders == {"algorithm", "key", "key_md5"}

\* C16 as stated: download_file sends the three SSE-C headers whenever it is
\* given a configuration and none of them when it is given none.
C16_HeadersIffConfigGiven ==
    \A i \in 1..Len(downloads) :
        DOMAIN downloads[i].headers
            = IF downloads[i].s3_config # None THEN SseHeaders ELSE {}

\* C16, amended: download_file sends the three SSE-C headers, with the
\* algorithm, the key and the digest of the configuration, whenever the
\* configuration it is given holds an SSE-C key; it sends none of them when
\* it is given no configuration or one without a key (the S3 settings alone).
C16_HeadersIffKey ==
    \A i \in 1..Len(downloads) :
        LET c == downloads[i].s3_config
            h == downloads[i].headers
        IN IF c # None /\ "sse_customer_key" \in DOMAIN c[1]
           THEN /\ DOMAIN h = SseHeaders
                /\ h.algorithm = c[1]["sse_customer_algorithm"]
                /\ h.key = c[1]["sse_customer_key"]
                /\ h.key_md5 = c[1]["sse_customer_key_md5"]
           ELSE DOMAIN h = {}

\* C16 happens: a file was requested with a configuration that holds a bucket
\* and no key
C16_Witness ==
    /\ Len(downloads) = 1
    /\ downloads[1].s3_config # None
    /\ DOMAIN downloads[1].s3_config[1] = {"bucket_name"}
    /\ DOMAIN downloads[1].headers = {}

ApiKeyMissing == "API_KEY" \notin DOMAIN env \/ env["API_KEY"] = ""
NoRequest == posts = <<>> /\ gets = <<>> /\ downloads = <<>>

\* C18: when API_KEY is unset or empty the command fails with the
\* configuration error of create_http_session and sends no request at all;
\* otherwise the session it uses has the Authorization header
\* "Bearer <API_KEY>", and no request is sent without a session.
C18_NoRequestWithoutApiKey ==
    /\ ApiKeyMissing => NoRequest /\ session = None
    /\ pc # "start" =>
        IF ApiKeyMissing
        THEN /\ pc = "exit"
             /\ error = Some(ConfigError("API_KEY", 0))
             /\ exit_code = Some(2)
        ELSE session = Some([Authorization |-> << "Bearer", env["API_KEY"] >>])
    /\ ~NoRequest => session # None

\* C18 happens: the command ended at create_http_session with an empty API_KEY
C18_Witness ==
    /\ pc = "exit" /\ "API_KEY" \in DOMAIN env /\ env["API_KEY"] = ""
    /\ error # None /\ error[1].type = "ConfigError"

(***************************************************************************)
(* Properties of build_s3_config (specification SpecBuild)                 *)
(***************************************************************************)
Built == auto_generate_key # None
Returned == Built /\ pc \in {"show", "fetch_task"}
Failed == Built /\ pc = "exit"
Auto == auto_generate_key = Some(TRUE)
Cfg == s3_config[1]
SseEntries ==
    {"sse_customer_key", "sse_customer_algorithm", "sse_customer_key_md5",
     "_generated_key"}
HasKey == s3_config # None /\ "sse_customer_key" \in DOMAIN Cfg

\* what the invocation supplies for a setting: the command line attribute
\* when the command has it and it is not None, else the environment variable
Supplied(arg_name, env_name) ==
    IF arg_name \in DOMAIN args /\ args[arg_name] # None THEN args[arg_name]
    ELSE IF env_name \in DOMAIN env THEN Some(env[env_name])
    ELSE None
NonEmpty(x) == x # None /\ x[1] # <<>>
ExplicitKey == IF "s3_sse_c_key" \in DOMAIN args THEN args["s3_sse_c_key"] ELSE None
EnvironKey == IF "S3_SSE_C_KEY" \in DOMAIN env THEN Some(env["S3_SSE_C_KEY"]) ELSE None
OtherSettings == { t \in S3_SETTINGS : NonEmpty(Supplied(t[2], t[3])) }
GeneratedKeys == { b64encode([i \in 1..URANDOM_BYTES |-> b]) : b \in 0..MaxRandByte }
\* a configuration of the other settings alone, None when there is none
OnlyOtherSettings ==
    /\ (s3_config = None) <=> (OtherSettings = {})
    /\ s3_config # None
        => /\ DOMAIN Cfg = { t[1] : t \in OtherSettings }
           /\ \A t \in OtherSettings : Cfg[t[1]] = Supplied(t[2], t[3])[1]

\* C5 as stated: with SSE-C disabled the builder returns None, whatever else
\* is supplied.
C5_DisabledReturnsNone ==
    Built /\ args.no_sse_c => Returned /\ s3_config = None

\* C5, amended: with SSE-C disabled the builder never fails and returns a
\* configuration without any SSE-C entry, whatever key is supplied: the
\* other S3 settings alone, and None exactly when there is none of them.
C5_DisabledHasNoSseC ==
    Built /\ args.no_sse_c => Returned /\ OnlyOtherSettings

\* C5 happens: SSE-C disabled, an explicit key and a bucket given
C5_Witness ==
    /\ Returned /\ args.no_sse_c
    /\ NonEmpty(ExplicitKey)
    /\ s3_config # None /\ DOMAIN Cfg = {"bucket_name"}

\* C6: the key is the explicit argument if one is given, else the
\* environment value if present, else a generated key when auto_generate_key
\* is true, and else there is no key and the result is None.
C6_KeyPriorityOrNone ==
    Returned /\ ~args.no_sse_c =>
        IF NonEmpty(ExplicitKey) THEN HasKey /\ Cfg["sse_customer_key"] = ExplicitKey[1]
        ELSE IF NonEmpty(EnvironKey)
        THEN HasKey /\ Cfg["sse_customer_key"] = EnvironKey[1]
        ELSE IF Auto THEN HasKey /\ Cfg["sse_customer_key"] \in GeneratedKeys
        ELSE s3_config = None

\* base64 as RFC 4648 defines it: characters of the alphabet in groups of
\* four, the last group ending in at most two pad characters
WellFormedB64(s) ==
    /\ Len(s) % 4 = 0
    /\ \A i \in 1..Len(s) :
        \/ B64Val(s[i]) < 64
        \/ s[i] = PAD /\ i >= Len(s) - 1 /\ s[Len(s)] = PAD
DecodedLength(s) == 3 * (Len(s) \div 4) - Cardinality({ i \in 1..Len(s) : s[i] = PAD })

\* C7: a resolved key is accepted only if it is base64 of exactly 32 bytes:
\* malformed base64 fails with a configuration error, another length fails
\* with the configuration error that reports it, and nothing is returned.
C7_OnlyBase64Of32Bytes ==
    LET key == Supplied("s3_sse_c_key", "S3_SSE_C_KEY") IN
    Built /\ ~args.no_sse_c /\ NonEmpty(key) =>
        IF ~WellFormedB64(key[1])
        THEN Failed /\ error[1].type = "ConfigError" /\ s3_config = None
        ELSE IF DecodedLength(key[1]) # SSE_KEY_BYTES
        THEN /\ Failed /\ s3_config = None
             /\ error[1] = ConfigError("length", DecodedLength(key[1]))
        ELSE Returned /\ HasKey /\ Cfg["sse_customer_key"] = key[1]

DigestOf(key) == b64encode(md5_digest(b64decode(key).bytes))
SuppliedMd5 == Supplied("s3_sse_c_key_md5", "S3_SSE_C_KEY_MD5")

\* C8 as stated: the digest of a returned configuration is the base64 of the
\* MD5 of the bytes its key encodes.
C8_DigestMatchesKey ==
    Returned /\ HasKey /\ "sse_customer_key_md5" \in DOMAIN Cfg
        => Cfg["sse_customer_key_md5"] = DigestOf(Cfg["sse_customer_key"])

\* C8, amended: a returned configuration with a key has a digest; it is the
\* base64 of the MD5 of the bytes the key decodes to whenever the caller
\* supplies no digest (neither the argument nor S3_SSE_C_KEY_MD5), and a
\* digest that is not this MD5 is one the caller supplied, returned as it is.
C8_ComputedDigestMatchesKey ==
    LET md5_arg == IF "s3_sse_c_key_md5" \in DOMAIN args
                   THEN args["s3_sse_c_key_md5"] ELSE None
        md5_env == IF "S3_SSE_C_KEY_MD5" \in DOMAIN env
                   THEN Some(env["S3_SSE_C_KEY_MD5"]) ELSE None
    IN Returned /\ HasKey =>
        /\ "sse_customer_key_md5" \in DOMAIN Cfg
        /\ \/ Cfg["sse_customer_key_md5"] = DigestOf(Cfg["sse_customer_key"])
           \/ NonEmpty(md5_arg) /\ Cfg["sse_customer_key_md5"] = md5_arg[1]
           \/ NonEmpty(md5_env) /\ Cfg["sse_customer_key_md5"] = md5_env[1]
        /\ ~NonEmpty(md5_arg) /\ ~NonEmpty(md5_env)
            => Cfg["sse_customer_key_md5"] = DigestOf(Cfg["sse_customer_key"])

\* C8 happens: a user's key without a digest, on the download path
C8_Witness ==
    /\ Returned /\ HasKey /\ command = "download"
    /\ SuppliedMd5 = None
    /\ ExplicitKey = Some(UserKey(SSE_KEY_BYTES))

\* C9: the configuration is marked as generated if and only if
\* SSE-C is not disabled, neither an explicit nor an environment key is
\* available and auto_generate_key is true.
C9_MarkerIffNoKeyAvailable ==
    Returned =>
        (HasMarker(s3_config)
            <=> ~args.no_sse_c /\ ~NonEmpty(ExplicitKey) /\ ~NonEmpty(EnvironKey) /\ Auto)

(***************************************************************************)
(* Properties of get_api_host (specification SpecStart)                    *)
(***************************************************************************)
HostArgument == args.api_host
Started == pc # "start"

\* C17: the host of a command is the argument when one is provided (a
\* non-empty string), else the value of API_HOST when it is set, else
\* api.sekoia.io; a provided argument overrides API_HOST.
C17_HostPriority ==
    Started =>
        /\ api_host # None
        /\ api_host[1] =
              IF HostArgument # None /\ HostArgument[1] # "" THEN HostArgument[1]
              ELSE IF "API_HOST" \in DOMAIN env THEN env["API_HOST"]
              ELSE "api.sekoia.io"
        /\ HostArgument = Some("api.us.sekoia.io") => api_host = HostArgument

\* C17 happens: a host was given on the command line and another one in the
\* environment
C17_Witness ==
    /\ Started /\ command = "status"
    /\ HostArgument = Some("api.us.sekoia.io")
    /\ "API_HOST" \in DOMAIN env /\ env["API_HOST"] = "api.eu.sekoia.io"
    /\ api_host = Some("api.us.sekoia.io")

(***************************************************************************)
(* Properties of interleaved polls (specification SpecThreads)             *)
(***************************************************************************)
\* what a call of poll_status remembers and shows after the first n of the
\* samples it fetched itself
RECURSIVE Replay(_, _)
Replay(samples, n) ==
    IF n = 0
    THEN [progress |-> None, eta_str |-> NoEta,
          last_progress_count |-> None, last_poll_time |-> None]
    ELSE LET before == Replay(samples, n - 1)
             s == samples[n]
         IN IF is_finished(s.data) \/ is_failed(s.data) THEN before
            ELSE progress_line(s.data, before.last_progress_count,
                               before.last_poll_time, s.time).value

\* C19: of two polls run at once, each has the previous sample, the progress
\* and the ETA that its own samples give, the deadline that its own start
\* and maximum wait give, and the outcome of its own last sample or of its
\* own deadline.
C19_PollsIndependent ==
    \A p \in DOMAIN frames :
        LET f == frames[p]
            n == Len(f.samples)
            own == Replay(f.samples, n)
        IN /\ f.last_progress_count = own.last_progress_count
           /\ f.last_poll_time = own.last_poll_time
           /\ f.progress = own.progress
           /\ f.eta_str = own.eta_str
           /\ f.start_time # None =>
                f.deadline = IF f.max_wait_s = None THEN None
                             ELSE Some(f.start_time[1] + f.max_wait_s[1])
           /\ f.pc = "returned" =>
                /\ n > 0 /\ is_finished(f.samples[n].data)
                /\ f.download_url = attributes_get(f.samples[n].data, "download_url")
                /\ f.error = None
           /\ f.pc = "raised" =>
                \/ /\ f.error = Some([type |-> "TimeoutError", reason |-> "deadline"])
                   /\ f.deadline # None /\ now >= f.deadline[1]
                \/ /\ n > 0 /\ is_failed(f.samples[n].data)
                   /\ f.error = Some([type |-> "RuntimeError", reason |-> "task",
                                      status |-> f.samples[n].data.status[1],
                                      details |-> error_details(f.samples[n].data)])
           /\ f.pc = "sleep" =>
                n > 0 /\ ~is_finished(f.samples[n].data) /\ ~is_failed(f.samples[n].data)

\* C19 happens: the first poll shows an ETA from its two samples, between
\* which the second poll, which has timed out since, took a sample of its own
C19_Witness ==
    /\ DOMAIN frames = Pollers
    /\ Len(frames[1].samples) = 2 /\ frames[1].eta_str.kind = "value"
    /\ Len(frames[2].samples) = 1
    /\ frames[1].samples[1].time <= frames[2].samples[1].time
    /\ frames[2].samples[1].time <= frames[1].samples[2].time
    /\ frames[2].last_progress_count = Some(1)
    /\ frames[2].pc = "raised" /\ frames[2].error[1].type = "TimeoutError"
    /\ frames[1].max_wait_s = None

(***************************************************************************)
(* Properties of the deadline of poll_status (specification Spec)          *)
(***************************************************************************)
\* a step of poll_status that raises TimeoutError
TimeoutStep == ~TimedOut /\ TimedOut'
\* a step in which a status request was answered with a task status
AnsweredStep == Len(gets') = Len(gets) + 1 /\ gets'[Len(gets')].status_code = 200
\* the deadline passed while the last status request was in flight
PassedInFlight ==
    /\ deadline # None /\ current_poll_time # None
    /\ current_poll_time[1] < deadline[1] /\ now >= deadline[1]

\* C21: TimeoutError is raised only by the deadline check at the top of an
\* iteration, in a step that sends no status request; a step that fetched a
\* task status acts on it even when the deadline passed during the request:
\* FINISHED makes the poll return the URL of the response, a failure status
\* makes it raise the task failure, any other status leads to the sleep, and
\* none of them raises TimeoutError.
C21_TimeoutOnlyBeforeFetch ==
    /\ [][TimeoutStep => /\ pc = "loop" /\ deadline # None /\ now >= deadline[1]
                         /\ gets' = gets /\ fetches' = fetches /\ now' = now]_vars
    /\ [][AnsweredStep =>
            /\ ~TimedOut'
            /\ StatusOf(data') = Some("FINISHED")
                 => pc' = "polled" /\ error' = None
                    /\ download_url' = UrlCarried(data')
            /\ (StatusOf(data') # None /\ StatusOf(data')[1] \in FailureStatuses)
                 => /\ pc' = "exit" /\ error' # None
                    /\ error'[1].type = "RuntimeError" /\ error'[1].reason = "task"
                    /\ error'[1].status = StatusOf(data')[1]
            /\ IsPending(data') => pc' = "sleep" /\ error' = None]_vars

\* C21 happens: a poll with a deadline returned the URL of a FINISHED task
\* whose status request began before the deadline and ended after it
C21_Witness ==
    /\ PassedInFlight /\ pc = "polled" /\ fetches >= 1
    /\ StatusOf(data) = Some("FINISHED")
    /\ download_url = Some("https://x/y") /\ error = None

(***************************************************************************)
(* Termination of poll_status (specification SpecLive)                     *)
(***************************************************************************)
MaxWaitGiven == PollEntered /\ max_wait_s # None
PollEnded == PollEntered /\ pc \in {"polled", "exit"}
EndedAsSpecified ==
    IF error = None
    THEN data # None /\ StatusOf(data) = Some("FINISHED")
    ELSE \/ error[1].type = "TimeoutError"
         \/ error[1].type = "RuntimeError" /\ error[1].reason \in {"task", "fetch"}

\* C22: a poll entered with a maximum wait eventually ends, whatever the
\* server answers, and it ends by returning on FINISHED, by the task
\* failure, by the failure of a status request or by TimeoutError.
C22_GivenMaxWaitTerminates ==
    /\ MaxWaitGiven ~> PollEnded
    /\ [](MaxWaitGiven /\ pc \in {"polled", "exit"} => EndedAsSpecified)

\* the maximum waits for which the poll does end: every one but zero, which
\* line 516 takes for no limit
NonZeroMaxWaitTerminates ==
    (MaxWaitGiven /\ max_wait_s[1] # 0) ~> PollEnded

====
